---- MODULE Spec2Model ----
(***************************************************************************)
(* Hotel reservation system (src/reservation_system.py).                   *)
(*                                                                         *)
(* State: the three JSON documents on disk, the last call made (its name   *)
(* and first argument), what it returned, what it printed, and the         *)
(* exception it raised (if any).  Every handler is a read-whole-file /     *)
(* change-in-memory / write-whole-file step, written as an operator from   *)
(* the file system and the arguments to the file system, the lines printed *)
(* and the exception.                                                      *)
(*                                                                         *)
(* Python values carry their type: an int is <<"int", n>>, a str is        *)
(* <<"str", s>>; a dict is the sequence of its <<key, value>> items in     *)
(* insertion order; a list is a sequence.  A document is what the file     *)
(* holds: nothing (no file), bytes that are no UTF-8 text, text that is no *)
(* JSON document, or a JSON document (arrays, objects, numbers, strings).  *)
(***************************************************************************)
EXTENDS Integers, Sequences, FiniteSets, TLC

\* ---------------------------------------------------------------- bounds
MaxId == 2
MaxRooms == 1
MaxRes == 2
MaxLen == 2

VARIABLES fs, call, ret, out, exc
vars == <<fs, call, ret, out, exc>>

\* ------------------------------------------------------- Python values
PyInt(n) == <<"int", n>>
PyStr(s) == <<"str", s>>
NoException == "none"
None == <<"None">>
Returned(v) == <<"value", v>>

\* d[k] for a dict d that has key k
DictGet(d, k) == d[CHOOSE i \in 1..Len(d) : d[i][1] = k][2]
DictHas(d, k) == \E i \in 1..Len(d) : d[i][1] = k
\* d[k] = v: an existing key keeps its place, a new key goes last
DictSet(d, k, v) ==
    IF DictHas(d, k)
    THEN [i \in 1..Len(d) |-> IF d[i][1] = k THEN <<k, v>> ELSE d[i]]
    ELSE Append(d, <<k, v>>)
\* mutant: only the first keyword argument is applied
DictUpdate_FirstOnly(d, kwargs) ==
    IF kwargs = <<>> THEN d ELSE DictSet(d, kwargs[1][1], kwargs[1][2])
\* d.update(kwargs): the items of kwargs are set in their order
RECURSIVE DictUpdate(_, _)
DictUpdate(d, kwargs) ==
    IF kwargs = <<>> THEN d
    ELSE DictUpdate(DictSet(d, kwargs[1][1], kwargs[1][2]), Tail(kwargs))
\* mutant: only the first matching item is removed
RECURSIVE ListWithout_FirstOnly(_, _, _)
ListWithout_FirstOnly(xs, key, id) ==
    IF xs = <<>> THEN <<>>
    ELSE IF DictGet(xs[1], key) # id
    THEN <<xs[1]>> \o ListWithout_FirstOnly(Tail(xs), key, id)
    ELSE Tail(xs)
\* [x for x in xs if x[key] != id]
RECURSIVE ListWithout(_, _, _)
ListWithout(xs, key, id) ==
    IF xs = <<>> THEN <<>>
    ELSE IF DictGet(xs[1], key) # id
    THEN <<xs[1]>> \o ListWithout(Tail(xs), key, id)
    ELSE ListWithout(Tail(xs), key, id)

\* ------------------------------------------------------------ documents
HOTELS == "hotels.json"
CUSTOMERS == "customers.json"
RESERVATIONS == "reservations.json"
Files == {HOTELS, CUSTOMERS, RESERVATIONS}

Absent == <<"absent">>
BadBytes == <<"bytes">>
Malformed == <<"text">>
JsonDoc(j) == <<"json", j>>

\* mutant: every scalar is written as a JSON string
DumpScalar_AsString(v) == <<"string", v[2]>>
\* json.dump of a list of dicts of ints and strs
DumpScalar(v) == IF v[1] = "int" THEN <<"number", v[2]>> ELSE <<"string", v[2]>>
DumpDict(d) == <<"object", [i \in 1..Len(d) |-> <<d[i][1], DumpScalar(d[i][2])>>]>>
json_dump(data) == <<"array", [i \in 1..Len(data) |-> DumpDict(data[i])]>>

\* json.load of a JSON document: an object's members are inserted in order,
\* so a repeated key keeps its first place and its last value
RECURSIVE json_load(_)
RECURSIVE LoadMembers(_, _)
LoadMembers(d, members) ==
    IF members = <<>> THEN d
    ELSE LoadMembers(DictSet(d, members[1][1], json_load(members[1][2])), Tail(members))
json_load(j) ==
    CASE j[1] = "number" -> PyInt(j[2])
      [] j[1] = "string" -> PyStr(j[2])
      [] j[1] = "array" -> [i \in 1..Len(j[2]) |-> json_load(j[2][i])]
      [] j[1] = "object" -> LoadMembers(<<>>, j[2])

Line(s) == <<"line", s>>
InvalidDataMsg(filename) ==
    CASE filename = HOTELS -> Line("Error: Invalid data in hotels.json")
      [] filename = CUSTOMERS -> Line("Error: Invalid data in customers.json")
      [] filename = RESERVATIONS -> Line("Error: Invalid data in reservations.json")

\* read_file: the value returned, the lines printed, the exception raised
read_file(fsys, filename) ==
    LET doc == fsys[filename] IN
    CASE doc = Absent -> [val |-> <<>>, out |-> <<>>, exc |-> NoException]
      [] doc = BadBytes -> [val |-> <<>>, out |-> <<>>, exc |-> "UnicodeDecodeError"]
      [] doc = Malformed ->
            [val |-> <<>>, out |-> <<InvalidDataMsg(filename)>>, exc |-> NoException]
      [] OTHER -> [val |-> json_load(doc[2]), out |-> <<>>, exc |-> NoException]

\* write_file: the file system afterwards
write_file(fsys, filename, data) ==
    [fsys EXCEPT ![filename] = JsonDoc(json_dump(data))]

\* what a handler leaves: the file system, the lines printed, the exception
Result(fsys, printed, raised) == [fs |-> fsys, out |-> printed, exc |-> raised]

\* ---------------------------------------------------------------- Hotel
\* mutant: the new record is put first
create_hotel_Prepend(fsys, hotel_id, name, location, rooms) ==
    LET r == read_file(fsys, HOTELS)
        hotels == r.val
    IN  IF r.exc # NoException THEN Result(fsys, r.out, r.exc)
        ELSE IF \E i \in 1..Len(hotels) : DictGet(hotels[i], "hotel_id") = hotel_id
        THEN Result(fsys, r.out \o <<Line("Error: Hotel ID already exists.")>>, NoException)
        ELSE Result(write_file(fsys, HOTELS,
                        << << <<"hotel_id", hotel_id>>, <<"name", name>>,
                              <<"location", location>>, <<"rooms", rooms>> >> >> \o hotels),
                    r.out, NoException)
create_hotel(fsys, hotel_id, name, location, rooms) ==
    LET r == read_file(fsys, HOTELS)
        hotels == r.val
    IN  IF r.exc # NoException THEN Result(fsys, r.out, r.exc)
        ELSE IF \E i \in 1..Len(hotels) : DictGet(hotels[i], "hotel_id") = hotel_id
        THEN Result(fsys, r.out \o <<Line("Error: Hotel ID already exists.")>>, NoException)
        ELSE Result(write_file(fsys, HOTELS,
                        Append(hotels, << <<"hotel_id", hotel_id>>, <<"name", name>>,
                                          <<"location", location>>, <<"rooms", rooms>> >>)),
                    r.out, NoException)

\* mutant: the reservations of the deleted hotel are removed with it
delete_hotel_Cascade(fsys, hotel_id) ==
    LET r == read_file(fsys, HOTELS)
        rr == read_file(fsys, RESERVATIONS)
    IN  IF r.exc # NoException THEN Result(fsys, r.out, r.exc)
        ELSE Result(write_file(
                        write_file(fsys, HOTELS, ListWithout(r.val, "hotel_id", hotel_id)),
                        RESERVATIONS, ListWithout(rr.val, "hotel_id", hotel_id)),
                    r.out, NoException)
delete_hotel(fsys, hotel_id) ==
    LET r == read_file(fsys, HOTELS)
    IN  IF r.exc # NoException THEN Result(fsys, r.out, r.exc)
        ELSE Result(write_file(fsys, HOTELS, ListWithout(r.val, "hotel_id", hotel_id)),
                    r.out, NoException)

\* the first item of xs whose key field equals id, 0 when there is none
FirstIndex(xs, key, id) ==
    IF \E i \in 1..Len(xs) : DictGet(xs[i], key) = id
    THEN CHOOSE i \in 1..Len(xs) :
            /\ DictGet(xs[i], key) = id
            /\ \A j \in 1..(i - 1) : DictGet(xs[j], key) # id
    ELSE 0

display_hotel_info(fsys, hotel_id) ==
    LET r == read_file(fsys, HOTELS)
        i == FirstIndex(r.val, "hotel_id", hotel_id)
    IN  IF r.exc # NoException THEN Result(fsys, r.out, r.exc)
        ELSE IF i # 0 /\ r.val[i] # <<>>
        THEN Result(fsys, r.out \o << <<"repr", r.val[i]>> >>, NoException)
        ELSE Result(fsys, r.out \o <<Line("Hotel not found.")>>, NoException)

\* mutant: the first parameter has another name, and a hotel_id keyword
\* argument is merged like any other
modify_hotel_info_KeyMerged(fsys, hotel_id, kwargs) ==
    LET r == read_file(fsys, HOTELS)
        hotels == r.val
        i == FirstIndex(hotels, "hotel_id", hotel_id)
    IN  IF r.exc # NoException THEN Result(fsys, r.out, r.exc)
        ELSE IF i # 0
        THEN Result(write_file(fsys, HOTELS,
                        [hotels EXCEPT ![i] = DictUpdate(hotels[i], kwargs)]),
                    r.out, NoException)
        ELSE Result(write_file(fsys, HOTELS, hotels),
                    r.out \o <<Line("Hotel not found.")>>, NoException)
\* hotel_id is also the name of the first parameter: a keyword argument of that
\* name cannot be bound, and the call raises before the body runs
modify_hotel_info(fsys, hotel_id, kwargs) ==
    IF DictHas(kwargs, "hotel_id") THEN Result(fsys, <<>>, "TypeError")
    ELSE
    LET r == read_file(fsys, HOTELS)
        hotels == r.val
        i == FirstIndex(hotels, "hotel_id", hotel_id)
    IN  IF r.exc # NoException THEN Result(fsys, r.out, r.exc)
        ELSE IF i # 0
        THEN Result(write_file(fsys, HOTELS,
                        [hotels EXCEPT ![i] = DictUpdate(hotels[i], kwargs)]),
                    r.out, NoException)
        ELSE Result(write_file(fsys, HOTELS, hotels),
                    r.out \o <<Line("Hotel not found.")>>, NoException)

\* ------------------------------------------------------------- Customer
\* mutant: no check for a stored customer_id
create_customer_NoCheck(fsys, customer_id, name, email) ==
    LET r == read_file(fsys, CUSTOMERS)
        customers == r.val
    IN  IF r.exc # NoException THEN Result(fsys, r.out, r.exc)
        ELSE Result(write_file(fsys, CUSTOMERS,
                        Append(customers, << <<"customer_id", customer_id>>,
                                             <<"name", name>>, <<"email", email>> >>)),
                    r.out, NoException)
create_customer(fsys, customer_id, name, email) ==
    LET r == read_file(fsys, CUSTOMERS)
        customers == r.val
    IN  IF r.exc # NoException THEN Result(fsys, r.out, r.exc)
        ELSE IF \E i \in 1..Len(customers) :
                    DictGet(customers[i], "customer_id") = customer_id
        THEN Result(fsys, r.out \o <<Line("Error: Customer ID already exists.")>>,
                    NoException)
        ELSE Result(write_file(fsys, CUSTOMERS,
                        Append(customers, << <<"customer_id", customer_id>>,
                                             <<"name", name>>, <<"email", email>> >>)),
                    r.out, NoException)

delete_customer(fsys, customer_id) ==
    LET r == read_file(fsys, CUSTOMERS)
    IN  IF r.exc # NoException THEN Result(fsys, r.out, r.exc)
        ELSE Result(write_file(fsys, CUSTOMERS,
                        ListWithout(r.val, "customer_id", customer_id)),
                    r.out, NoException)

display_customer_info(fsys, customer_id) ==
    LET r == read_file(fsys, CUSTOMERS)
        i == FirstIndex(r.val, "customer_id", customer_id)
    IN  IF r.exc # NoException THEN Result(fsys, r.out, r.exc)
        ELSE IF i # 0 /\ r.val[i] # <<>>
        THEN Result(fsys, r.out \o << <<"repr", r.val[i]>> >>, NoException)
        ELSE Result(fsys, r.out \o <<Line("Customer not found.")>>, NoException)

modify_customer_info(fsys, customer_id, kwargs) ==
    IF DictHas(kwargs, "customer_id") THEN Result(fsys, <<>>, "TypeError")
    ELSE
    LET r == read_file(fsys, CUSTOMERS)
        customers == r.val
        i == FirstIndex(customers, "customer_id", customer_id)
    IN  IF r.exc # NoException THEN Result(fsys, r.out, r.exc)
        ELSE IF i # 0
        THEN Result(write_file(fsys, CUSTOMERS,
                        [customers EXCEPT ![i] = DictUpdate(customers[i], kwargs)]),
                    r.out, NoException)
        ELSE Result(write_file(fsys, CUSTOMERS, customers),
                    r.out \o <<Line("Customer not found.")>>, NoException)

\* ---------------------------------------------------------- Reservation
\* mutant: the last room of a hotel is refused (>= for >)
create_reservation_Ge(fsys, reservation_id, customer_id, hotel_id, room_number) ==
    LET rr == read_file(fsys, RESERVATIONS)
        rh == read_file(fsys, HOTELS)
        rc == read_file(fsys, CUSTOMERS)
        reservations == rr.val
        hotels == rh.val
        customers == rc.val
        h == FirstIndex(hotels, "hotel_id", hotel_id)
        printed == rr.out \o rh.out \o rc.out
    IN  IF rr.exc # NoException THEN Result(fsys, rr.out, rr.exc)
        ELSE IF rh.exc # NoException THEN Result(fsys, rr.out \o rh.out, rh.exc)
        ELSE IF rc.exc # NoException THEN Result(fsys, printed, rc.exc)
        ELSE IF ~ \E i \in 1..Len(customers) :
                      DictGet(customers[i], "customer_id") = customer_id
        THEN Result(fsys, printed \o <<Line("Error: Customer does not exist.")>>,
                    NoException)
        ELSE IF h = 0 \/ hotels[h] = <<>>
                \/ room_number[2] >= DictGet(hotels[h], "rooms")[2]
        THEN Result(fsys, printed \o <<Line("Error: Invalid hotel or room number.")>>,
                    NoException)
        ELSE Result(write_file(fsys, RESERVATIONS,
                        Append(reservations,
                               << <<"reservation_id", reservation_id>>,
                                  <<"customer_id", customer_id>>,
                                  <<"hotel_id", hotel_id>>,
                                  <<"room_number", room_number>> >>)),
                    printed, NoException)
create_reservation(fsys, reservation_id, customer_id, hotel_id, room_number) ==
    LET rr == read_file(fsys, RESERVATIONS)
        rh == read_file(fsys, HOTELS)
        rc == read_file(fsys, CUSTOMERS)
        reservations == rr.val
        hotels == rh.val
        customers == rc.val
        h == FirstIndex(hotels, "hotel_id", hotel_id)
        printed == rr.out \o rh.out \o rc.out
    IN  IF rr.exc # NoException THEN Result(fsys, rr.out, rr.exc)
        ELSE IF rh.exc # NoException THEN Result(fsys, rr.out \o rh.out, rh.exc)
        ELSE IF rc.exc # NoException THEN Result(fsys, printed, rc.exc)
        ELSE IF ~ \E i \in 1..Len(customers) :
                      DictGet(customers[i], "customer_id") = customer_id
        THEN Result(fsys, printed \o <<Line("Error: Customer does not exist.")>>,
                    NoException)
        ELSE IF h = 0 \/ hotels[h] = <<>>
                \/ room_number[2] > DictGet(hotels[h], "rooms")[2]
        THEN Result(fsys, printed \o <<Line("Error: Invalid hotel or room number.")>>,
                    NoException)
        ELSE Result(write_file(fsys, RESERVATIONS,
                        Append(reservations,
                               << <<"reservation_id", reservation_id>>,
                                  <<"customer_id", customer_id>>,
                                  <<"hotel_id", hotel_id>>,
                                  <<"room_number", room_number>> >>)),
                    printed, NoException)

cancel_reservation(fsys, reservation_id) ==
    LET r == read_file(fsys, RESERVATIONS)
    IN  IF r.exc # NoException THEN Result(fsys, r.out, r.exc)
        ELSE Result(write_file(fsys, RESERVATIONS,
                        ListWithout(r.val, "reservation_id", reservation_id)),
                    r.out, NoException)

\* --------------------------------------------------------------- inputs
Ids == {PyInt(n) : n \in 1..MaxId}
RoomCounts == {PyInt(n) : n \in 1..MaxRooms}
RoomNumbers == {PyInt(n) : n \in 1..(MaxRooms + 1)}
\* the values of TestHotelManagement
HotelNames == {PyStr("Hotel Paradise"), PyStr("Updated Paradise")}
Locations == {PyStr("New York")}
TestRooms == {PyInt(100), PyInt(150)}
CustomerNames == {PyStr("John Doe"), PyStr("John Smith")}
Emails == {PyStr("john@example.com"), PyStr("js@ex.com")}
OneName == {PyStr("Hotel Paradise")}
OneCustomer == {PyStr("John Doe")}
OneEmail == {PyStr("john@example.com")}
FirstId == {PyInt(1)}

\* the keyword arguments that give each field of fields (a sequence of
\* <<name, values>>) either no value or one of its values, in field order
RECURSIVE KwargsOver(_)
KwargsOver(fields) ==
    IF fields = <<>> THEN {<<>>}
    ELSE LET rest == KwargsOver(Tail(fields))
         IN  rest \cup {<< <<fields[1][1], v>> >> \o kw : v \in fields[1][2], kw \in rest}

\* keyword arguments over the record's fields: those that leave the key
\* field alone, and those that name it
HotelFieldKwargs(names, locations, rooms) ==
    KwargsOver(<< <<"name", names>>, <<"location", locations>>, <<"rooms", rooms>> >>)
HotelKeyKwargs(rooms) ==
    {<< <<"hotel_id", k>> >> \o kw : k \in Ids, kw \in KwargsOver(<< <<"rooms", rooms>> >>)}
HotelKwargs(names, locations, rooms) ==
    HotelFieldKwargs(names, locations, rooms) \cup HotelKeyKwargs(rooms)
CustomerFieldKwargs(names, emails) ==
    KwargsOver(<< <<"name", names>>, <<"email", emails>> >>)
CustomerKeyKwargs(emails) ==
    {<< <<"customer_id", k>> >> \o kw :
        k \in Ids, kw \in KwargsOver(<< <<"email", emails>> >>)}
CustomerKwargs(names, emails) ==
    CustomerFieldKwargs(names, emails) \cup CustomerKeyKwargs(emails)

\* --------------------------------------------------------- test_scripts
\* files_with_data: the seed records of each document, in the dict's order
SeedFiles == <<HOTELS, CUSTOMERS, RESERVATIONS>>
files_with_data(filename) ==
    CASE filename = HOTELS ->
            << << <<"hotel_id", PyInt(1)>>, <<"name", PyStr("Hotel Paradise")>>,
                  <<"location", PyStr("New York")>>, <<"rooms", PyInt(100)>> >>,
               << <<"hotel_id", PyInt(2)>>, <<"name", PyStr("Ocean View Resort")>>,
                  <<"location", PyStr("Miami")>>, <<"rooms", PyInt(200)>> >> >>
      [] filename = CUSTOMERS ->
            << << <<"customer_id", PyInt(1)>>, <<"name", PyStr("John Doe")>>,
                  <<"email", PyStr("john@example.com")>> >>,
               << <<"customer_id", PyInt(2)>>, <<"name", PyStr("Jane Smith")>>,
                  <<"email", PyStr("jane@example.com")>> >> >>
      [] filename = RESERVATIONS ->
            << << <<"reservation_id", PyInt(1)>>, <<"customer_id", PyInt(1)>>,
                  <<"hotel_id", PyInt(1)>>, <<"room_number", PyInt(50)>> >>,
               << <<"reservation_id", PyInt(2)>>, <<"customer_id", PyInt(2)>>,
                  <<"hotel_id", PyInt(2)>>, <<"room_number", PyInt(100)>> >> >>
CreatedMsg(filename) ==
    CASE filename = HOTELS -> Line("Archivo hotels.json creado con datos iniciales.")
      [] filename = CUSTOMERS -> Line("Archivo customers.json creado con datos iniciales.")
      [] filename = RESERVATIONS ->
            Line("Archivo reservations.json creado con datos iniciales.")
ExistsMsg(filename) ==
    CASE filename = HOTELS -> Line("Archivo hotels.json ya existe.")
      [] filename = CUSTOMERS -> Line("Archivo customers.json ya existe.")
      [] filename = RESERVATIONS -> Line("Archivo reservations.json ya existe.")

\* json.dump(data, file, indent=4): the same document as write_file's, the
\* indentation being white space between its tokens
create_json_file_with_data(fsys, filename, data) ==
    [fsys EXCEPT ![filename] = JsonDoc(json_dump(data))]

\* the loop over files_with_data from its i-th entry on: a file that does not
\* exist is created with its seed records, any other is left as it is
RECURSIVE SeedFrom(_, _, _)
SeedFrom(fsys, printed, i) ==
    IF i > Len(SeedFiles) THEN Result(fsys, printed, NoException)
    ELSE LET filename == SeedFiles[i] IN
         IF fsys[filename] = Absent
         THEN SeedFrom(create_json_file_with_data(fsys, filename, files_with_data(filename)),
                       printed \o <<CreatedMsg(filename)>>, i + 1)
         ELSE SeedFrom(fsys, printed \o <<ExistsMsg(filename)>>, i + 1)
generate_test_files_with_data(fsys) == SeedFrom(fsys, <<>>, 1)

\* -------------------------------------------------------------- actions
EmptyDocs == [f \in Files |-> JsonDoc(json_dump(<<>>))]

\* TestHotelManagement.setUp: every document holds the empty list
Init ==
    /\ fs = EmptyDocs
    /\ call = <<"setUp", <<>>>>
    /\ ret = None
    /\ out = <<>>
    /\ exc = NoException

\* a handler called from the top level: it returns None or raises
Do(op, arg, r) ==
    /\ fs' = r.fs
    /\ out' = r.out
    /\ exc' = r.exc
    /\ ret' = None
    /\ call' = <<op, arg>>

CreateHotel(names, locations, rooms) ==
    \E id \in Ids, n \in names, l \in locations, k \in rooms :
        Do("create_hotel", id, create_hotel(fs, id, n, l, k))
DeleteHotel ==
    \E id \in Ids : Do("delete_hotel", id, delete_hotel(fs, id))
DisplayHotelInfo ==
    \E id \in Ids : Do("display_hotel_info", id, display_hotel_info(fs, id))
ModifyHotelInfo(names, locations, rooms) ==
    \E id \in Ids, kw \in HotelKwargs(names, locations, rooms) :
        Do("modify_hotel_info", id, modify_hotel_info(fs, id, kw))
CreateCustomer(names, emails) ==
    \E id \in Ids, n \in names, e \in emails :
        Do("create_customer", id, create_customer(fs, id, n, e))
DeleteCustomer ==
    \E id \in Ids : Do("delete_customer", id, delete_customer(fs, id))
DisplayCustomerInfo ==
    \E id \in Ids : Do("display_customer_info", id, display_customer_info(fs, id))
ModifyCustomerInfo(names, emails) ==
    \E id \in Ids, kw \in CustomerKwargs(names, emails) :
        Do("modify_customer_info", id, modify_customer_info(fs, id, kw))
\* the reservation document has no key check and grows without limit: the
\* model stops creating at MaxRes stored reservations
\* every call is taken, a refused one included; the exploration stops at
\* MaxRes stored reservations, so an append past it is not followed
CreateReservation(customers, hotels, rooms) ==
    \E rid \in Ids, cid \in customers, hid \in hotels, room \in rooms :
        LET r == create_reservation(fs, rid, cid, hid, room) IN
        /\ Len(read_file(r.fs, RESERVATIONS).val) <= MaxRes
        /\ Do("create_reservation", rid, r)
CancelReservation ==
    \E rid \in Ids : Do("cancel_reservation", rid, cancel_reservation(fs, rid))

\* the hotel and customer repositories, every field of a record varying
NextRegistry ==
    \/ CreateHotel(HotelNames, Locations, TestRooms)
    \/ DeleteHotel
    \/ DisplayHotelInfo
    \/ ModifyHotelInfo(HotelNames, Locations, TestRooms)
    \/ CreateCustomer(CustomerNames, Emails)
    \/ DeleteCustomer
    \/ DisplayCustomerInfo
    \/ ModifyCustomerInfo(CustomerNames, Emails)

SpecRegistry == Init /\ [][NextRegistry]_vars

\* the three repositories together, the fields a reservation does not
\* depend on held to one value
NextBooking ==
    \/ CreateHotel(OneName, Locations, RoomCounts)
    \/ DeleteHotel
    \/ ModifyHotelInfo({}, {}, RoomCounts)
    \/ CreateCustomer(OneCustomer, OneEmail)
    \/ DeleteCustomer
    \/ CreateReservation(Ids, Ids, RoomNumbers)
    \/ CancelReservation

SpecBooking == Init /\ [][NextBooking]_vars

\* the storage adapter called directly, on documents found in any condition
StartDocs == {Absent, BadBytes, Malformed, JsonDoc(json_dump(<<>>))}
RECURSIVE ListsOver(_, _)
ListsOver(pool, n) ==
    IF n = 0 THEN {<<>>}
    ELSE LET shorter == ListsOver(pool, n - 1)
         IN  shorter \cup {Append(xs, x) : xs \in {l \in shorter : Len(l) = n - 1}, x \in pool}
RecordPool(filename) ==
    CASE filename = HOTELS ->
            {<< <<"hotel_id", id>>, <<"name", n>>, <<"location", l>>, <<"rooms", k>> >> :
                id \in Ids, n \in OneName, l \in Locations, k \in RoomCounts}
      [] filename = CUSTOMERS ->
            {<< <<"customer_id", id>>, <<"name", n>>, <<"email", e>> >> :
                id \in Ids, n \in OneCustomer, e \in OneEmail}
      [] filename = RESERVATIONS ->
            {<< <<"reservation_id", id>>, <<"customer_id", c>>, <<"hotel_id", h>>,
                <<"room_number", k>> >> :
                id \in Ids, c \in FirstId, h \in FirstId, k \in RoomCounts}
DataFor(filename) == ListsOver(RecordPool(filename), MaxLen)

InitStorage ==
    /\ fs \in [Files -> StartDocs]
    /\ call = <<"start", <<>>>>
    /\ ret = None
    /\ out = <<>>
    /\ exc = NoException

WriteFile ==
    \E filename \in Files : \E data \in DataFor(filename) :
        /\ fs' = write_file(fs, filename, data)
        /\ out' = <<>>
        /\ exc' = NoException
        /\ ret' = None
        /\ call' = <<"write_file", filename>>
GenerateTestFilesWithData ==
    Do("generate_test_files_with_data", <<>>, generate_test_files_with_data(fs))
ReadFile ==
    \E filename \in Files :
        LET r == read_file(fs, filename) IN
        /\ fs' = fs
        /\ out' = r.out
        /\ exc' = r.exc
        /\ ret' = IF r.exc = NoException THEN Returned(r.val) ELSE None
        /\ call' = <<"read_file", filename>>

NextStorage ==
    \/ WriteFile
    \/ GenerateTestFilesWithData
    \/ ReadFile
    \/ CreateHotel(OneName, Locations, RoomCounts)
    \/ DeleteHotel
    \/ DisplayHotelInfo
    \/ ModifyHotelInfo({}, {}, {})
    \/ CreateCustomer(OneCustomer, OneEmail)
    \/ DeleteCustomer
    \/ DisplayCustomerInfo
    \/ ModifyCustomerInfo({}, {})
    \/ CreateReservation(FirstId, FirstId, RoomCounts)
    \/ CancelReservation

SpecStorage == InitStorage /\ [][NextStorage]_vars

\* --------------------------------------------------------------- claims
\* the sequence a document holds
Hotels(fsys) == read_file(fsys, HOTELS).val
Customers(fsys) == read_file(fsys, CUSTOMERS).val
Reservations(fsys) == read_file(fsys, RESERVATIONS).val
HasId(xs, key, id) == \E i \in 1..Len(xs) : DictGet(xs[i], key) = id
UniqueKey(xs, key) ==
    \A i, j \in 1..Len(xs) : i # j => DictGet(xs[i], key) # DictGet(xs[j], key)

\* C1: from empty documents, after any sequence of hotel and customer calls
\* (the keyword arguments of a modify drawn from the record's fields, the key
\* field among them), no two stored hotels share a hotel_id and no two stored
\* customers share a customer_id.
C1_UniqueIds ==
    /\ UniqueKey(Hotels(fs), "hotel_id")
    /\ UniqueKey(Customers(fs), "customer_id")
\* a modify that named the key field has just been refused, both documents full
C1_Witness ==
    /\ call[1] = "modify_hotel_info"
    /\ exc = "TypeError"
    /\ Len(Hotels(fs)) = MaxId
    /\ Len(Customers(fs)) = MaxId

\* C2: a create whose id is the key of a stored record leaves the stored
\* sequence as it was, whatever the other arguments.
C2_DuplicateCreateChangesNothing ==
    /\ \A id \in Ids, n \in HotelNames, l \in Locations, k \in TestRooms :
          HasId(Hotels(fs), "hotel_id", id)
            => Hotels(create_hotel(fs, id, n, l, k).fs) = Hotels(fs)
    /\ \A id \in Ids, n \in CustomerNames, e \in Emails :
          HasId(Customers(fs), "customer_id", id)
            => Customers(create_customer(fs, id, n, e).fs) = Customers(fs)
\* a create_customer has just been refused as a duplicate
C2_Witness ==
    /\ call[1] = "create_customer"
    /\ out = <<Line("Error: Customer ID already exists.")>>
    /\ HasId(Customers(fs), "customer_id", call[2])

\* C4: a create whose id is the key of no stored record leaves the prior
\* sequence followed by one new record carrying the given values.
C4_CreateAppends ==
    /\ \A id \in Ids, n \in HotelNames, l \in Locations, k \in TestRooms :
          ~HasId(Hotels(fs), "hotel_id", id)
            => Hotels(create_hotel(fs, id, n, l, k).fs)
                 = Append(Hotels(fs), << <<"hotel_id", id>>, <<"name", n>>,
                                         <<"location", l>>, <<"rooms", k>> >>)
    /\ \A id \in Ids, n \in CustomerNames, e \in Emails :
          ~HasId(Customers(fs), "customer_id", id)
            => Customers(create_customer(fs, id, n, e).fs)
                 = Append(Customers(fs), << <<"customer_id", id>>, <<"name", n>>,
                                            <<"email", e>> >>)
\* a create_hotel has just stored a second record, after the first
C4_Witness ==
    /\ call[1] = "create_hotel"
    /\ out = <<>>
    /\ exc = NoException
    /\ Len(Hotels(fs)) = 2
    /\ DictGet(Hotels(fs)[2], "hotel_id") = call[2]

\* what a modify is to leave: the record with that key has every named
\* field at the supplied value and every other field as it was, the other
\* records and the order are as they were; with no such record, nothing changes
ModifyContract(before, after, key, id, kwargs) ==
    IF HasId(before, key, id)
    THEN LET i == CHOOSE i \in 1..Len(before) : DictGet(before[i], key) = id
         IN  /\ Len(after) = Len(before)
             /\ \A j \in 1..Len(before) : j # i => after[j] = before[j]
             /\ Len(after[i]) = Len(before[i])
             /\ \A j \in 1..Len(kwargs) :
                    DictGet(after[i], kwargs[j][1]) = kwargs[j][2]
             /\ \A j \in 1..Len(before[i]) :
                    ~DictHas(kwargs, before[i][j][1])
                      => DictGet(after[i], before[i][j][1]) = before[i][j][2]
    ELSE after = before

\* the step is this call with this result
Step(op, id, r) ==
    /\ call' = <<op, id>>
    /\ fs' = r.fs
    /\ out' = r.out
    /\ exc' = r.exc

\* C6 as stated: for any keyword arguments over the record's fields, a modify
\* of a stored id sets every named field and keeps the rest; a modify of an
\* id not stored changes nothing.
C6_AsStated ==
    [][ /\ \A id \in Ids, kw \in HotelKwargs(HotelNames, Locations, TestRooms) :
              Step("modify_hotel_info", id, modify_hotel_info(fs, id, kw))
                => ModifyContract(Hotels(fs), Hotels(fs'), "hotel_id", id, kw)
        /\ \A id \in Ids, kw \in CustomerKwargs(CustomerNames, Emails) :
              Step("modify_customer_info", id, modify_customer_info(fs, id, kw))
                => ModifyContract(Customers(fs), Customers(fs'), "customer_id", id, kw)
      ]_vars
\* C6 amended: the same for keyword arguments that do not name the key field;
\* a modify whose keyword arguments name the key field raises TypeError and
\* leaves every document as it was.
C6_ModifyMerges ==
    /\ \A id \in Ids, kw \in HotelFieldKwargs(HotelNames, Locations, TestRooms) :
          LET r == modify_hotel_info(fs, id, kw)
          IN  /\ r.exc = NoException
              /\ ModifyContract(Hotels(fs), Hotels(r.fs), "hotel_id", id, kw)
    /\ \A id \in Ids, kw \in CustomerFieldKwargs(CustomerNames, Emails) :
          LET r == modify_customer_info(fs, id, kw)
          IN  /\ r.exc = NoException
              /\ ModifyContract(Customers(fs), Customers(r.fs), "customer_id", id, kw)
    /\ \A id \in Ids, kw \in HotelKeyKwargs(TestRooms) :
          LET r == modify_hotel_info(fs, id, kw)
          IN  r.exc = "TypeError" /\ r.fs = fs
    /\ \A id \in Ids, kw \in CustomerKeyKwargs(Emails) :
          LET r == modify_customer_info(fs, id, kw)
          IN  r.exc = "TypeError" /\ r.fs = fs
\* a modify_hotel_info has just updated the second of two stored hotels
C6_Witness ==
    /\ call[1] = "modify_hotel_info"
    /\ out = <<>>
    /\ exc = NoException
    /\ Len(Hotels(fs)) = 2
    /\ DictGet(Hotels(fs)[2], "hotel_id") = call[2]
    /\ DictGet(Hotels(fs)[2], "name") = PyStr("Updated Paradise")
    /\ DictGet(Hotels(fs)[1], "name") = PyStr("Hotel Paradise")

\* C7: from empty documents, after create_customer(1, "John Doe",
\* "john@example.com") and modify_customer_info(1, name="John Smith",
\* email="js@ex.com"), the first stored customer has name "John Smith" and
\* email "johnsmith@example.com" (TestHotelManagement.test_modify_customer_info).
C7_TestModifyCustomerInfo ==
    [][ ( /\ call = <<"create_customer", PyInt(1)>>
          /\ fs = create_customer(EmptyDocs, PyInt(1), PyStr("John Doe"),
                                  PyStr("john@example.com")).fs
          /\ Step("modify_customer_info", PyInt(1),
                  modify_customer_info(fs, PyInt(1),
                      << <<"name", PyStr("John Smith")>>,
                         <<"email", PyStr("js@ex.com")>> >>)) )
        => /\ DictGet(Customers(fs')[1], "name") = PyStr("John Smith")
           /\ DictGet(Customers(fs')[1], "email") = PyStr("johnsmith@example.com")
      ]_vars

\* C3: create_reservation appends a record exactly when the customer document
\* holds that customer_id, the hotel document holds that hotel_id and
\* room_number <= that hotel's rooms; otherwise the reservation sequence is
\* as it was.
C3_ReservationIffValid ==
    \A rid \in Ids, cid \in Ids, hid \in Ids, room \in {PyInt(0)} \cup RoomNumbers :
        LET after == Reservations(create_reservation(fs, rid, cid, hid, room).fs)
            hotels == Hotels(fs)
            valid ==
                /\ HasId(Customers(fs), "customer_id", cid)
                /\ \E i \in 1..Len(hotels) :
                      /\ DictGet(hotels[i], "hotel_id") = hid
                      /\ room[2] <= DictGet(hotels[i], "rooms")[2]
        IN  IF valid
            THEN after = Append(Reservations(fs),
                                << <<"reservation_id", rid>>, <<"customer_id", cid>>,
                                   <<"hotel_id", hid>>, <<"room_number", room>> >>)
            ELSE after = Reservations(fs)
\* a create_reservation has just stored a second reservation, for the last
\* room of its hotel
C3_Witness ==
    /\ call[1] = "create_reservation"
    /\ out = <<>>
    /\ exc = NoException
    /\ Len(Reservations(fs)) = 2
    /\ DictGet(Reservations(fs)[2], "reservation_id") = call[2]
    /\ DictGet(Reservations(fs)[2], "room_number") = PyInt(MaxRooms)

\* the records of xs whose key field is not id, in their order
Others(xs, key, id) ==
    LET keep(x) == DictGet(x, key) # id IN SelectSeq(xs, keep)

\* C5: delete_hotel, delete_customer and cancel_reservation leave the prior
\* sequence without the records whose key equals the id, the rest unchanged
\* and in their order; with no such record the sequence is as it was.
C5_DeleteRemovesExactlyTheId ==
    \A id \in Ids :
        /\ Hotels(delete_hotel(fs, id).fs) = Others(Hotels(fs), "hotel_id", id)
        /\ Customers(delete_customer(fs, id).fs)
             = Others(Customers(fs), "customer_id", id)
        /\ Reservations(cancel_reservation(fs, id).fs)
             = Others(Reservations(fs), "reservation_id", id)
        /\ ~HasId(Hotels(fs), "hotel_id", id)
             => Hotels(delete_hotel(fs, id).fs) = Hotels(fs)
        /\ ~HasId(Customers(fs), "customer_id", id)
             => Customers(delete_customer(fs, id).fs) = Customers(fs)
        /\ ~HasId(Reservations(fs), "reservation_id", id)
             => Reservations(cancel_reservation(fs, id).fs) = Reservations(fs)
\* a cancel_reservation has just run and left one reservation, of another id
C5_Witness ==
    /\ call[1] = "cancel_reservation"
    /\ exc = NoException
    /\ Len(Reservations(fs)) = 1
    /\ DictGet(Reservations(fs)[1], "reservation_id") # call[2]

\* C10: delete_hotel and delete_customer leave the reservation document as it
\* was, the reservations of the deleted hotel or customer included.
C10_DeleteKeepsReservations ==
    \A id \in Ids :
        /\ delete_hotel(fs, id).fs[RESERVATIONS] = fs[RESERVATIONS]
        /\ delete_customer(fs, id).fs[RESERVATIONS] = fs[RESERVATIONS]
\* a delete_hotel has just run and a stored reservation names the deleted hotel
C10_Witness ==
    /\ call[1] = "delete_hotel"
    /\ exc = NoException
    /\ ~HasId(Hotels(fs), "hotel_id", call[2])
    /\ HasId(Reservations(fs), "hotel_id", call[2])

\* C8: write_file(name, records) followed by read_file(name) returns records,
\* whatever the document held before the write.
C8_WriteThenRead ==
    \A filename \in Files : \A data \in DataFor(filename) :
        LET r == read_file(write_file(fs, filename, data), filename)
        IN  r.exc = NoException /\ r.val = data
\* a read_file has just returned MaxLen records
C8_Witness ==
    /\ call[1] = "read_file"
    /\ exc = NoException
    /\ ret[1] = "value"
    /\ Len(ret[2]) = MaxLen
    /\ ret[2] = read_file(fs, call[2]).val

\* the stored sequences and the exception of two results agree
SameOutcome(r1, r2) ==
    /\ r1.exc = r2.exc
    /\ \A f \in Files : read_file(r1.fs, f).val = read_file(r2.fs, f).val
Undecodable == {BadBytes, Malformed}
WithEmpty(fsys, filename) == [fsys EXCEPT ![filename] = JsonDoc(json_dump(<<>>))]

\* every repository operation does on fsys what it does with the document
\* filename holding the empty list
AsOnEmpty(fsys, filename) ==
    LET e == WithEmpty(fsys, filename)
    IN  \A id \in Ids :
          /\ SameOutcome(create_hotel(fsys, id, PyStr("Hotel Paradise"),
                                      PyStr("New York"), PyInt(1)),
                         create_hotel(e, id, PyStr("Hotel Paradise"),
                                      PyStr("New York"), PyInt(1)))
          /\ SameOutcome(delete_hotel(fsys, id), delete_hotel(e, id))
          /\ SameOutcome(display_hotel_info(fsys, id), display_hotel_info(e, id))
          /\ SameOutcome(modify_hotel_info(fsys, id, <<>>), modify_hotel_info(e, id, <<>>))
          /\ SameOutcome(create_customer(fsys, id, PyStr("John Doe"),
                                         PyStr("john@example.com")),
                         create_customer(e, id, PyStr("John Doe"),
                                         PyStr("john@example.com")))
          /\ SameOutcome(delete_customer(fsys, id), delete_customer(e, id))
          /\ SameOutcome(display_customer_info(fsys, id), display_customer_info(e, id))
          /\ SameOutcome(modify_customer_info(fsys, id, <<>>),
                         modify_customer_info(e, id, <<>>))
          /\ SameOutcome(create_reservation(fsys, id, PyInt(1), PyInt(1), PyInt(1)),
                         create_reservation(e, id, PyInt(1), PyInt(1), PyInt(1)))
          /\ SameOutcome(cancel_reservation(fsys, id), cancel_reservation(e, id))

\* C9: read_file returns the empty sequence, and raises nothing, when the
\* document does not exist and when its content cannot be decoded; the read
\* leaves the document alone, and every repository operation does on such a
\* document what it does on one holding the empty sequence.
C9_UndecodableReadsAsEmpty ==
    [][ (call'[1] = "read_file" /\ fs[call'[2]] \in Undecodable \cup {Absent})
          => /\ exc' = NoException
             /\ ret' = Returned(<<>>)
             /\ fs' = fs
             /\ AsOnEmpty(fs, call'[2])
      ]_vars
\* the part of C9 the code keeps: the same for a document that does not exist
\* or holds text that is no JSON document
C9_MalformedReadsAsEmpty ==
    [][ (call'[1] = "read_file" /\ fs[call'[2]] \in {Absent, Malformed})
          => /\ exc' = NoException
             /\ ret' = Returned(<<>>)
             /\ fs' = fs
             /\ AsOnEmpty(fs, call'[2])
      ]_vars

====
